---- MODULE Spec2Model ----
(***************************************************************************)
(* Model of the two components of WebExport-IFET:                          *)
(*   src/ifet/lang.js          locale detection and page translation       *)
(*   src/api/ifet/feedback.js  the feedback relay (edge function)          *)
(* Three specifications share the module: Spec (initTranslations and       *)
(* translatePage over a DOM), SpecDetect (detectLanguage over a URL) and   *)
(* SpecRelay (the relay's handler).                                        *)
(***************************************************************************)
EXTENDS Integers, Sequences, FiniteSets, TLC

VARIABLES
  location,      \* window.location.href, as a sequence of text pieces
  loaded,        \* lang.js has run: currentLang is assigned
  currentLang,   \* lang.js:28   const currentLang
  translations,  \* lang.js:31   let translations
  document,      \* the DOM: [body |-> child nodes of <body>, lang |-> <html lang>]
  outcome,       \* how the last initTranslations/translatePage call ended
  runs,          \* translatePage executions since translations was last assigned
  env,           \* feedback.js:95-100  the environment the handler reads
  request,       \* the request the handler was invoked with
  pc,            \* where the handler stands: idle, reading, sending, done
  attachment,    \* feedback.js:138  let attachment
  calls,         \* the calls made to the Telegram API, in order
  upstream,      \* how the Telegram API answered the call
  response       \* the Response the handler returned

pageVars == <<translations, document, outcome, runs>>

langVars == <<location, loaded, currentLang>>

relayVars == <<env, request, pc, attachment, calls, upstream, response>>

vars == <<langVars, pageVars, relayVars>>

(***************************************************************************)
(* JavaScript values                                                       *)
(***************************************************************************)
\* A string-valued slot holds a string, or one of the two nullish values.
Undefined == "\\undefined"
Null == "\\null"

\* ToBoolean on a string-valued slot: undefined, null and "" are falsy.
Truthy(v) == v \notin {Undefined, Null, ""}

\* a || b
Or(a, b) == IF Truthy(a) THEN a ELSE b

(***************************************************************************)
(* lang.js: constants                                                      *)
(***************************************************************************)
SUPPORTED_LOCALES ==
  {"ar", "bn", "de", "en", "es", "fr", "hi", "ja", "ko", "pt", "ru", "zh"}

DEFAULT_LOCALE == "en"

(***************************************************************************)
(* Text.  A string of the URL is a sequence of pieces; a piece is a        *)
(* delimiter character, an escape, or a word that no operation of the code *)
(* cuts (a parameter name, a language code, a region).                     *)
(***************************************************************************)
\* String.prototype.toLowerCase on one piece
LowerPiece(c) ==
  CASE c = "RU" -> "ru"
    [] c = "EN" -> "en"
    [] c = "US" -> "us"
    [] c = "TW" -> "tw"
    [] c = "Hant" -> "hant"
    [] c = "LANG" -> "lang"
    [] OTHER -> c

Lower(s) == [i \in DOMAIN s |-> LowerPiece(s[i])]

\* Index of the first piece of s that is in set, 0 when there is none
RECURSIVE FirstIn(_, _, _)
FirstIn(s, set, i) ==
  IF i > Len(s) THEN 0
  ELSE IF s[i] \in set THEN i
  ELSE FirstIn(s, set, i + 1)

\* The pieces of s before the first one in set (s.split(sep)[0])
Before(s, set) ==
  LET i == FirstIn(s, set, 1) IN IF i = 0 THEN s ELSE SubSeq(s, 1, i - 1)

\* The pieces of s after the first one in set
After(s, set) ==
  LET i == FirstIn(s, set, 1) IN IF i = 0 THEN <<>> ELSE SubSeq(s, i + 1, Len(s))

\* s.split(sep)
RECURSIVE Split(_, _)
Split(s, sep) ==
  IF FirstIn(s, {sep}, 1) = 0 THEN <<s>>
  ELSE <<Before(s, {sep})>> \o Split(After(s, {sep}), sep)

\* String.prototype.trim: white space is dropped at both ends
RECURSIVE TrimStart(_)
TrimStart(s) ==
  IF s # <<>> /\ Head(s) = " " THEN TrimStart(Tail(s)) ELSE s

RECURSIVE TrimEnd(_)
TrimEnd(s) ==
  IF s # <<>> /\ s[Len(s)] = " " THEN TrimEnd(SubSeq(s, 1, Len(s) - 1)) ELSE s

Trim(s) == TrimEnd(TrimStart(s))

\* application/x-www-form-urlencoded decoding of one piece (URLSearchParams):
\* '+' is a space, a valid escape is decoded, a stray '%' is kept
FormDecodePiece(c) ==
  CASE c = "+" -> " "
    [] c = "%20" -> " "
    [] c = "%C3%A9" -> "e-acute"
    [] OTHER -> c

FormDecode(s) == [i \in DOMAIN s |-> FormDecodePiece(s[i])]

\* decodeURIComponent raises URIError on a stray '%'
DecodeThrows(s) == \E i \in DOMAIN s : s[i] = "%"

\* decodeURIComponent on a string it accepts: '+' stays
DecodePiece(c) ==
  CASE c = "%20" -> " "
    [] c = "%C3%A9" -> "e-acute"
    [] OTHER -> c

DecodeURIComponent(s) == [i \in DOMAIN s |-> DecodePiece(s[i])]

(***************************************************************************)
(* lang.js: detectLanguage                                                 *)
(***************************************************************************)
\* window.location.search: from the first '?' to the fragment; empty when
\* the query is empty
LocationSearch(href) ==
  LET noHash == Before(href, {"#"})
      q == FirstIn(noHash, {"?"}, 1)
      search == IF q = 0 THEN <<>> ELSE SubSeq(noHash, q, Len(noHash))
  IN IF search = <<"?">> THEN <<>> ELSE search

\* new URLSearchParams(search): the name/value pairs, in order
SearchParams(search) ==
  LET body == IF search # <<>> /\ Head(search) = "?" THEN Tail(search) ELSE search
      parts == Split(body, "&")
      kept == SelectSeq(parts, LAMBDA part : part # <<>>)
  IN [i \in DOMAIN kept |->
        [name |-> FormDecode(Before(kept[i], {"="})),
         value |-> FormDecode(After(kept[i], {"="}))]]

\* urlParams.get(name) || '' : the first value under the name, '' for null
RECURSIVE GetFrom(_, _, _)
GetFrom(params, name, i) ==
  IF i > Len(params) THEN <<>>
  ELSE IF params[i].name = <<name>> THEN params[i].value
  ELSE GetFrom(params, name, i + 1)

GetOrEmpty(params, name) == GetFrom(params, name, 1)

\* Mutant of Normalize: the region is not cut off
NormalizeKeepRegion(raw) == Lower(Trim(raw))

\* raw.trim().toLowerCase().split('-')[0]
Normalize(raw) == Before(Lower(Trim(raw)), {"-"})

\* SUPPORTED_LOCALES.includes(normalized)
Supported(normalized) ==
  Len(normalized) = 1 /\ normalized[1] \in SUPPORTED_LOCALES

\* href.match(/[?&]lang=([^&#]+)/i): the capture of the leftmost match,
\* empty when there is no match
RECURSIVE MatchFrom(_, _)
MatchFrom(href, i) ==
  IF i + 3 > Len(href) THEN <<>>
  ELSE IF /\ href[i] \in {"?", "&"}
          /\ LowerPiece(href[i + 1]) = "lang"
          /\ href[i + 2] = "="
          /\ href[i + 3] \notin {"&", "#"}
       THEN Before(SubSeq(href, i + 3, Len(href)), {"&", "#"})
       ELSE MatchFrom(href, i + 1)

HrefMatch(href) == MatchFrom(href, 1)

\* The try block of detectLanguage: it returns a locale, raises, or falls
\* through to the statement after the try
TryDetect(href) ==
  LET normalized == Normalize(GetOrEmpty(SearchParams(LocationSearch(href)), "lang"))
      m == HrefMatch(href)
  IN IF Supported(normalized)
     THEN [kind |-> "return", value |-> normalized[1]]
     ELSE IF m = <<>>
     THEN [kind |-> "fall", value |-> ""]
     ELSE IF DecodeThrows(m)
     THEN [kind |-> "throw", value |-> ""]
     ELSE IF Supported(Normalize(DecodeURIComponent(m)))
     THEN [kind |-> "return", value |-> Normalize(DecodeURIComponent(m))[1]]
     ELSE [kind |-> "fall", value |-> ""]

\* Mutant of detectLanguage: what the try block raises is not caught
detectLanguageNoCatch(href) ==
  LET r == TryDetect(href)
  IN [threw |-> r.kind = "throw",
      value |-> IF r.kind = "return" THEN r.value ELSE DEFAULT_LOCALE]

\* detectLanguage(): the catch clause swallows what the try block raises
detectLanguage(href) ==
  LET r == TryDetect(href)
  IN [threw |-> FALSE,
      value |-> IF r.kind = "return" THEN r.value ELSE DEFAULT_LOCALE]

(***************************************************************************)
(* Translation stores.  A store is a JavaScript value: null, undefined or  *)
(* an object whose property for a locale is absent (undefined), null, a    *)
(* primitive string, or an object from key to string-valued slot.          *)
(***************************************************************************)
StoreKeys == {"K", "L"}

NoProps == [k \in StoreKeys |-> Undefined]

EntryUndefined == [kind |-> "undefined", str |-> "", props |-> NoProps]
EntryNull == [kind |-> "null", str |-> "", props |-> NoProps]
EntryString(s) == [kind |-> "string", str |-> s, props |-> NoProps]
EntryObject(p) == [kind |-> "object", str |-> "", props |-> p]

NoEntries == [l \in SUPPORTED_LOCALES |-> EntryUndefined]

StoreNull == [kind |-> "null", ents |-> NoEntries]
StoreUndefined == [kind |-> "undefined", ents |-> NoEntries]
StoreObject(e) == [kind |-> "object", ents |-> e]

\* ToBoolean(translations[lang]) for an entry
EntryTruthy(e) == e.kind = "object" \/ (e.kind = "string" /\ e.str # "")

\* entry?.[key]: undefined on a nullish entry; a primitive string has no
\* property named by a translation key
OptGet(e, key) == IF e.kind = "object" THEN e.props[key] ELSE Undefined

(***************************************************************************)
(* DOM nodes.  One record shape serves elements and text nodes; tag        *)
(* "#text" marks a text node.  An absent attribute is NoAttr.              *)
(***************************************************************************)
NoAttr == "\\absent"

Text(s) ==
  [tag |-> "#text", cls |-> NoAttr, i18n |-> NoAttr, link |-> NoAttr,
   ph |-> NoAttr, value |-> "", text |-> s, kids |-> <<>>]

El(tag, cls, i18n, link, ph, kids) ==
  [tag |-> tag, cls |-> cls, i18n |-> i18n, link |-> link,
   ph |-> ph, value |-> "", text |-> "", kids |-> kids]

IsElement(n) == n.tag # "#text"

\* element.children.length: the element children only
ChildElementCount(n) == Cardinality({i \in DOMAIN n.kids : IsElement(n.kids[i])})

\* Mutant of SetTextContent: the text is appended to the existing children
SetTextContentAppend(n, s) ==
  [n EXCEPT !.kids = IF s = "" THEN n.kids ELSE Append(n.kids, Text(s))]

\* element.textContent = s: every child is removed; a non-empty s becomes
\* the single text child
SetTextContent(n, s) ==
  [n EXCEPT !.kids = IF s = "" THEN <<>> ELSE <<Text(s)>>]

\* Mutant of ComingSoon: the panel's title carries a translation marker
ComingSoonMarked ==
  << El("DIV", "container", NoAttr, NoAttr, NoAttr,
        << El("DIV", "panel", NoAttr, NoAttr, NoAttr,
              << El("H1", "page-title", "K", NoAttr, NoAttr,
                    <<Text("Coming Soon")>>) >>) >>) >>

\* The markup assigned to document.body.innerHTML on the gate path
ComingSoon ==
  << Text(" "),
     El("DIV", "container", NoAttr, NoAttr, NoAttr,
        << Text(" "),
           El("DIV", "panel", NoAttr, NoAttr, NoAttr,
              << Text(" "),
                 El("H1", "page-title", NoAttr, NoAttr, NoAttr,
                    <<Text("Coming Soon")>>),
                 Text(" "),
                 El("P", "page-subtitle", NoAttr, NoAttr, NoAttr,
                    <<Text("This page is not yet available in your language.")>>),
                 Text(" ") >>),
           Text(" ") >>),
     Text(" ") >>

(***************************************************************************)
(* lang.js: translatePage                                                  *)
(***************************************************************************)
\* Mutant of Resolve: the English level is left out
ResolveNoEnglish(store, lang, key) == Or(OptGet(store.ents[lang], key), key)

\* translations[lang]?.[key] || translations['en']?.[key] || key
Resolve(store, lang, key) ==
  Or(Or(OptGet(store.ents[lang], key), OptGet(store.ents["en"], key)), key)

\* Mutant of TranslateElement: every other element has its text content
\* replaced, whatever its children
TranslateElementKeepKids(store, lang, n) ==
  LET text == Resolve(store, lang, n.i18n) IN
  IF n.tag \in {"INPUT", "TEXTAREA"}
  THEN IF n.ph # NoAttr
       THEN [n EXCEPT !.ph = text]
       ELSE [n EXCEPT !.value = text]
  ELSE SetTextContent(n, text)

\* The body of the forEach callback, for one element carrying data-i18n
TranslateElement(store, lang, n) ==
  LET text == Resolve(store, lang, n.i18n) IN
  IF n.tag \in {"INPUT", "TEXTAREA"}
  THEN IF n.ph # NoAttr
       THEN [n EXCEPT !.ph = text]
       ELSE [n EXCEPT !.value = text]
  ELSE IF n.link # NoAttr
  THEN SetTextContent(n, Resolve(store, lang, n.link))
  ELSE IF ChildElementCount(n) = 0
  THEN SetTextContent(n, text)
  ELSE n

\* querySelectorAll('[data-i18n]').forEach(...) on the subtree of n.  The
\* node list is static and in document order, so an element is visited
\* before its descendants; descendants of an element whose textContent was
\* assigned are visited detached and no longer belong to the document.
RECURSIVE TranslateNode(_, _, _)
TranslateNode(store, lang, n) ==
  IF ~IsElement(n) THEN n
  ELSE LET m == IF n.i18n # NoAttr THEN TranslateElement(store, lang, n) ELSE n
       IN [m EXCEPT !.kids =
             [i \in DOMAIN m.kids |-> TranslateNode(store, lang, m.kids[i])]]

\* Mutant of GateTriggers: only 'en' is exempt from the gate
GateTriggersOnlyEn(store, lang) ==
  ~EntryTruthy(store.ents[lang]) /\ lang # "en"

\* !translations[lang] && lang !== 'en' && lang !== 'ru'
GateTriggers(store, lang) ==
  ~EntryTruthy(store.ents[lang]) /\ lang # "en" /\ lang # "ru"

\* Reading a property of null or undefined raises a TypeError
ReadThrows(store) == store.kind # "object"

\* One execution of translatePage: the document it leaves and how it ended
TranslatePageRun(store, lang, doc) ==
  IF ReadThrows(store)
  THEN [doc |-> doc, outcome |-> "threw"]
  ELSE IF GateTriggers(store, lang)
  THEN [doc |-> [doc EXCEPT !.body = ComingSoon], outcome |-> "gate"]
  ELSE [doc |-> [body |-> [i \in DOMAIN doc.body |->
                             TranslateNode(store, lang, doc.body[i])],
                 lang |-> lang],
        outcome |-> "translated"]

(***************************************************************************)
(* feedback.js: the relay                                                  *)
(***************************************************************************)
\* A string of the configuration is a sequence of pieces: '*', ',', a
\* space, or an origin.  An unset variable is UnsetText.
UnsetText == <<Undefined>>

\* ToBoolean on a configuration string
TextTruthy(t) == t # UnsetText /\ t # <<>>

Wildcard == <<"*">>

\* allowedOrigins.includes(x)
Includes(list, x) == \E i \in DOMAIN list : list[i] = x

\* feedback.js:88-92
getAllowedOrigins(e) ==
  LET raw == Trim(IF TextTruthy(e.ALLOWED_ORIGINS) THEN e.ALLOWED_ORIGINS
                  ELSE IF TextTruthy(e.ALLOWED_ORIGIN) THEN e.ALLOWED_ORIGIN
                  ELSE Wildcard)
      parts == Split(raw, ",")
      trimmed == [i \in DOMAIN parts |-> Trim(parts[i])]
  IN IF raw = <<>> \/ raw = Wildcard THEN <<Wildcard>>
     ELSE SelectSeq(trimmed, LAMBDA t : t # <<>>)

\* Mutant of corsHeaders: outside the wildcard cases the request's origin
\* is echoed
corsHeadersEcho(requestOrigin, allowedOrigins) ==
  IF Len(allowedOrigins) = 0 THEN Wildcard
  ELSE IF Includes(allowedOrigins, Wildcard) THEN Wildcard
  ELSE requestOrigin

\* feedback.js:16-30: the value of Access-Control-Allow-Origin
corsHeaders(requestOrigin, allowedOrigins) ==
  IF Len(allowedOrigins) = 0 THEN Wildcard
  ELSE IF Includes(allowedOrigins, Wildcard) THEN Wildcard
  ELSE IF Includes(allowedOrigins, requestOrigin) THEN requestOrigin
  ELSE allowedOrigins[1]

\* !env.BOT_TOKEN || !env.CHAT_ID
NotConfigured(e) == ~Truthy(e.BOT_TOKEN) \/ ~Truthy(e.CHAT_ID)

\* ct.includes("multipart/form-data")
IsMultipart(ct) == ct = "multipart/form-data; boundary=b"

\* await request.formData() or await request.json() rejects: the body is
\* not of the kind the content type announces
BodyRejects(req) ==
  IF IsMultipart(req.contentType) THEN req.body # "multipart" ELSE req.body # "json"

\* feedback.js:150-154: fd.get("attachment") kept only when it is a File
\* of non-zero size; a JSON body carries none
ParseAttachment(req) ==
  IF IsMultipart(req.contentType) /\ req.file = "file" THEN "file" ELSE "none"

\* feedback.js:169-173
ChooseCall(att) == IF att # "none" THEN "sendDocument" ELSE "sendMessage"

\* Mutant of SendThrows: res.ok is not looked at
SendThrowsOnlyOnNetwork(up) == up = "network"

\* tgSendMessage / tgSendDocument raise when fetch rejects or res.ok is false
SendThrows(up) == up # "ok"

NoResponse == [status |-> 0, ok |-> "none", error |-> "", allowOrigin |-> <<>>]

\* json(data, cors, status) and new Response(null, {status, headers: cors})
Respond(status, ok, error, cors) ==
  [status |-> status, ok |-> ok, error |-> error, allowOrigin |-> cors]

\* The relay before it is invoked
NoRequest ==
  [method |-> "", origin |-> <<>>, contentType |-> "", body |-> "none", file |-> "none"]

NoEnv ==
  [BOT_TOKEN |-> Undefined, CHAT_ID |-> Undefined,
   ALLOWED_ORIGIN |-> UnsetText, ALLOWED_ORIGINS |-> UnsetText]

RelayIdle ==
  /\ env = NoEnv
  /\ request = NoRequest
  /\ pc = "idle"
  /\ attachment = "none"
  /\ calls = <<>>
  /\ upstream = "none"
  /\ response = NoResponse

(***************************************************************************)
(* Bounded inputs of Spec                                                  *)
(***************************************************************************)
MaxKids == 2
MaxRuns == 2

\* The addresses a page is loaded from: no parameter, a baseline locale with
\* a region, and a supported locale outside the baseline
PageHrefs ==
  { <<"/p">>,
    <<"/p", "?", "lang", "=", "ru", "-", "RU">>,
    <<"/p", "?", "lang", "=", "fr">> }

\* The string a store holds for key k under locale l, when it holds one
Tr(l, k) == IF l = "en" THEN (IF k = "K" THEN "Hello" ELSE "here")
            ELSE IF l = "ru" THEN (IF k = "K" THEN "Privet" ELSE "zdes")
            ELSE (IF k = "K" THEN "Bonjour" ELSE "ici")

\* <<value under "K", value under "L">> of the object entries
PropPairs(l) ==
  { <<Undefined, Undefined>>, <<Null, Tr(l, "L")>>, <<"", Undefined>>,
    <<Tr(l, "K"), Tr(l, "L")>> }

Entries(l) ==
  {EntryUndefined, EntryNull, EntryString("")} \cup
  { EntryObject([k \in StoreKeys |-> IF k = "K" THEN p[1] ELSE p[2]]) :
      p \in PropPairs(l) }

\* The stores a page may pass when the resolved locale is lang: the entries
\* for lang and for 'en' vary, every other locale has none
Stores(lang) ==
  {StoreNull, StoreUndefined} \cup
  { StoreObject([l \in SUPPORTED_LOCALES |->
                   IF l = lang THEN a ELSE IF l = "en" THEN b ELSE EntryUndefined]) :
      a \in Entries(lang), b \in Entries("en") }

KidNodes ==
  { Text("orig"),
    El("SPAN", NoAttr, NoAttr, NoAttr, NoAttr, <<Text("plain")>>),
    El("A", NoAttr, "K", NoAttr, NoAttr, <<Text("link")>>) }

KidSeqs == UNION { [1..n -> KidNodes] : n \in 0..MaxKids }

TopElements ==
  { El("DIV", NoAttr, k, l, NoAttr, ks) :
      k \in {NoAttr, "K"}, l \in {NoAttr, "L"}, ks \in KidSeqs } \cup
  { El(t, NoAttr, k, l, p, <<>>) :
      t \in {"INPUT", "TEXTAREA"}, k \in {NoAttr, "K"}, l \in {NoAttr, "L"},
      p \in {NoAttr, "hint"} }

(***************************************************************************)
(* Spec: a page with one top-level element, loaded under a resolved locale *)
(***************************************************************************)
Init ==
  /\ location \in PageHrefs
  /\ loaded = "ready"
  /\ currentLang = detectLanguage(location).value
  /\ translations = StoreObject(NoEntries)
  /\ \E top \in TopElements : document = [body |-> <<top>>, lang |-> ""]
  /\ outcome = "none"
  /\ runs = 0
  /\ RelayIdle

\* lang.js:40-91
translatePage ==
  /\ loaded = "ready"
  /\ \E r \in {TranslatePageRun(translations, currentLang, document)} :
       /\ document' = r.doc
       /\ outcome' = r.outcome
  /\ runs' = IF runs < MaxRuns THEN runs + 1 ELSE runs
  /\ UNCHANGED <<langVars, translations, relayVars>>

\* lang.js:34-37
initTranslations(pageTranslations) ==
  /\ translations' = pageTranslations
  /\ \E r \in {TranslatePageRun(pageTranslations, currentLang, document)} :
       /\ document' = r.doc
       /\ outcome' = r.outcome
  /\ runs' = 1
  /\ UNCHANGED <<langVars, relayVars>>

InitTranslationsCall ==
  loaded = "ready" /\ \E s \in Stores(currentLang) : initTranslations(s)

Next ==
  \/ translatePage
  \/ InitTranslationsCall

Spec == Init /\ [][Next]_vars

(***************************************************************************)
(* SpecDetect: lang.js is loaded at an address and line 28 assigns         *)
(* currentLang = detectLanguage()                                          *)
(***************************************************************************)
MaxParams == 2

Regions == { <<>>, <<"RU">>, <<"US">>, <<"xx">>, <<"Hant", "-", "TW">> }

\* ?lang=L-R for every supported locale L and region R
RegionalHrefs ==
  { <<"/p", "?", "lang", "=", l, "-">> \o r : l \in SUPPORTED_LOCALES, r \in Regions }

ParamNames == {"lang", "LANG", "x"}

\* A parameter value: absent (no '='), empty, a code, a code in capitals
\* with a region, a code after an encoded space, an unknown code, a
\* malformed escape, encoded non-ASCII text
ParamValues ==
  { <<"=">>, <<"=", "ru">>, <<"=", "RU", "-", "US">>, <<"=", "+", "fr">>,
    <<"=", "%20", "de", "%20">>, <<"=", "xx">>, <<"=", "%", "ru">>,
    <<"=", "%C3%A9">> }

Params == { <<n>> \o v : n \in ParamNames, v \in ParamValues \cup {<<>>} }

\* p1&p2&...&pn for the parameter lists of a given length
RECURSIVE Queries(_)
Queries(n) ==
  IF n = 0 THEN {<<>>}
  ELSE IF n = 1 THEN Params
  ELSE { q \o <<"&">> \o p : q \in Queries(n - 1), p \in Params }

\* The fragment: none, plain, or one that itself holds a query
Fragments ==
  { <<>>, <<"#", "top">>, <<"#", "?", "lang", "=", "ru">>,
    <<"#", "&", "LANG", "=", "ja">> }

GeneralHrefs ==
  { <<"/p">> \o (IF q = <<>> THEN <<>> ELSE <<"?">> \o q) \o f :
      q \in UNION { Queries(n) : n \in 0..MaxParams }, f \in Fragments }

Hrefs == RegionalHrefs \cup GeneralHrefs

InitDetect ==
  /\ location \in Hrefs
  /\ loaded = "pending"
  /\ currentLang = Undefined
  /\ translations = StoreObject(NoEntries)
  /\ document = [body |-> <<>>, lang |-> ""]
  /\ outcome = "none"
  /\ runs = 0
  /\ RelayIdle

\* lang.js:28 (and the rest of the script when detectLanguage returns)
LoadScript ==
  /\ loaded = "pending"
  /\ \E r \in {detectLanguage(location)} :
       /\ loaded' = IF r.threw THEN "failed" ELSE "ready"
       /\ currentLang' = IF r.threw THEN currentLang ELSE r.value
  /\ UNCHANGED <<location, pageVars, relayVars>>

NextDetect == LoadScript

SpecDetect == InitDetect /\ [][NextDetect]_vars

(***************************************************************************)
(* SpecRelay: one invocation of the relay's handler                        *)
(***************************************************************************)
MaxCfgLen == 3

OriginA == "https://a.example"
OriginEvil == "https://evil.example"

CfgPieces == {"*", ",", " ", OriginA}

\* The values of ALLOWED_ORIGINS: unset, or any text of at most MaxCfgLen
\* pieces
CfgTexts == {UnsetText} \cup UNION { [1..n -> CfgPieces] : n \in 0..MaxCfgLen }

Envs ==
  [ BOT_TOKEN : {Undefined, "token"},
    CHAT_ID : {Undefined, "chat"},
    ALLOWED_ORIGIN : {UnsetText, <<OriginA>>},
    ALLOWED_ORIGINS : CfgTexts ]

\* The Origin header: absent, an allowed origin, another origin
Origins == { <<>>, <<OriginA>>, <<OriginEvil>> }

\* body: what the request body is; file: what its "attachment" part is
Requests ==
  [ method : {"GET", "OPTIONS", "PUT"}, origin : Origins,
    contentType : {""}, body : {"none"}, file : {"none"} ] \cup
  [ method : {"POST"}, origin : Origins,
    contentType : {"", "application/json", "multipart/form-data; boundary=b"},
    body : {"json", "garbage"}, file : {"none"} ] \cup
  [ method : {"POST"}, origin : Origins,
    contentType : {"", "application/json", "multipart/form-data; boundary=b"},
    body : {"multipart"}, file : {"none", "string", "emptyFile", "file"} ]

InitRelay ==
  /\ env \in Envs
  /\ request = NoRequest
  /\ pc = "idle"
  /\ attachment = "none"
  /\ calls = <<>>
  /\ upstream = "none"
  /\ response = NoResponse
  /\ location = <<>>
  /\ loaded = "pending"
  /\ currentLang = Undefined
  /\ translations = StoreObject(NoEntries)
  /\ document = [body |-> <<>>, lang |-> ""]
  /\ outcome = "none"
  /\ runs = 0

\* feedback.js:94-130: up to the first await
Receive(req) ==
  /\ pc = "idle"
  /\ request' = req
  /\ \E cors \in {corsHeaders(req.origin, getAllowedOrigins(env))} :
       IF req.method = "GET"
       THEN pc' = "done" /\ response' = Respond(200, "true", "", cors)
       ELSE IF req.method = "OPTIONS"
       THEN pc' = "done" /\ response' = Respond(204, "none", "", cors)
       ELSE IF req.method # "POST"
       THEN pc' = "done" /\ response' = Respond(405, "false", "Method not allowed", cors)
       ELSE IF NotConfigured(env)
       THEN pc' = "done" /\ response' = Respond(500, "false", "Server not configured", cors)
       ELSE pc' = "reading" /\ response' = response
  /\ UNCHANGED <<env, attachment, calls, upstream, langVars, pageVars>>

\* feedback.js:132-167: the body is read; a rejection lands in the catch
ReadBody ==
  /\ pc = "reading"
  /\ \E cors \in {corsHeaders(request.origin, getAllowedOrigins(env))} :
       IF BodyRejects(request)
       THEN /\ pc' = "done"
            /\ attachment' = attachment
            /\ response' = Respond(500, "false", "body", cors)
       ELSE /\ pc' = "sending"
            /\ attachment' = ParseAttachment(request)
            /\ response' = response
  /\ UNCHANGED <<env, request, calls, upstream, langVars, pageVars>>

\* feedback.js:169-178: the one call to the Telegram API and the answer
Deliver(up) ==
  /\ pc = "sending"
  /\ upstream' = up
  /\ calls' = Append(calls, ChooseCall(attachment))
  /\ \E cors \in {corsHeaders(request.origin, getAllowedOrigins(env))} :
       response' = IF SendThrows(up)
                   THEN Respond(500, "false", "Telegram " \o up, cors)
                   ELSE Respond(200, "true", "", cors)
  /\ pc' = "done"
  /\ UNCHANGED <<env, request, attachment, langVars, pageVars>>

ReceiveRequest == \E req \in Requests : Receive(req)

DeliverCall == \E up \in {"ok", "rejected", "network"} : Deliver(up)

NextRelay ==
  \/ ReceiveRequest
  \/ ReadBody
  \/ DeliverCall

SpecRelay == InitRelay /\ [][NextRelay]_vars

(***************************************************************************)
(* Properties of SpecDetect                                                *)
(***************************************************************************)
\* The value of the first query parameter named lang ('' when there is
\* none) does not normalize to a supported locale: it is absent, empty, an
\* unknown code or malformed
QueryLangUnusable(href) ==
  ~Supported(Normalize(GetOrEmpty(SearchParams(LocationSearch(href)), "lang")))

\* The places of the address where '?lang=' or '&lang=', in any letter
\* case, is followed by a non-empty value
LangPlaces(href) ==
  { i \in 1..(Len(href) - 3) :
      /\ href[i] \in {"?", "&"}
      /\ LowerPiece(href[i + 1]) = "lang"
      /\ href[i + 2] = "="
      /\ href[i + 3] \notin {"&", "#"} }

\* The text at such a place, up to the next '&' or '#'
ValueAt(href, i) == Before(SubSeq(href, i + 3, Len(href)), {"&", "#"})

\* The first such place of the whole address, if any, holds no text that
\* percent-decodes and normalizes to a supported locale
HrefLangUnusable(href) ==
  LangPlaces(href) # {} =>
    LET first == CHOOSE i \in LangPlaces(href) : \A j \in LangPlaces(href) : i <= j
        v == ValueAt(href, first)
    IN DecodeThrows(v) \/ ~Supported(Normalize(DecodeURIComponent(v)))

\* C3 as stated: detectLanguage never throws, returns a supported locale,
\* and returns 'en' whenever the lang query parameter is unusable
C3_DefaultOnBadQuery ==
  loaded # "pending" =>
    /\ loaded = "ready"
    /\ currentLang \in SUPPORTED_LOCALES
    /\ QueryLangUnusable(location) => currentLang = DEFAULT_LOCALE

\* C3 amended: detectLanguage never throws, returns a supported locale, and
\* returns 'en' whenever the lang query parameter is unusable and the first
\* '?lang='/'&lang=' text of the whole address (any letter case, fragment
\* included) is unusable too.
C3_DefaultOnBadQueryAndHref ==
  loaded # "pending" =>
    /\ loaded = "ready"
    /\ currentLang \in SUPPORTED_LOCALES
    /\ (QueryLangUnusable(location) /\ HrefLangUnusable(location)) =>
         currentLang = DEFAULT_LOCALE

\* C3 witness: the lang parameter holds a malformed escape, decoding it
\* raised inside the try block, and the script still got 'en'
C3_Witness ==
  /\ loaded = "ready"
  /\ currentLang = DEFAULT_LOCALE
  /\ QueryLangUnusable(location)
  /\ TryDetect(location).kind = "throw"

\* The address is <path>?lang=L-R with L a supported locale
IsRegional(href) ==
  /\ Len(href) >= 6
  /\ SubSeq(href, 2, 4) = <<"?", "lang", "=">>
  /\ href[5] \in SUPPORTED_LOCALES
  /\ href[6] = "-"
  /\ \A i \in 7..Len(href) : href[i] \notin {"&", "#", "=", "?"}

\* C7: at an address ?lang=L-R with L a supported locale, detectLanguage
\* returns L.
C7_RegionCut ==
  (loaded # "pending" /\ IsRegional(location)) =>
    (loaded = "ready" /\ currentLang = location[5])

\* C7 witness: zh-Hant-TW resolved to zh
C7_Witness ==
  /\ loaded = "ready"
  /\ location = <<"/p", "?", "lang", "=", "zh", "-", "Hant", "-", "TW">>
  /\ currentLang = "zh"

(***************************************************************************)
(* Properties of SpecRelay                                                 *)
(***************************************************************************)
\* The request carries an attachment of non-zero size: a multipart body,
\* announced as such, whose attachment part is a non-empty file
CarriesFile(req) ==
  /\ req.body = "multipart"
  /\ IsMultipart(req.contentType)
  /\ req.file = "file"

\* C8: for a POST at most one Telegram call is made, none without
\* BOT_TOKEN or CHAT_ID; the answer is 200 {ok:true} exactly when that call
\* was made and succeeded, else a non-200 {ok:false, error}; the call is
\* sendDocument exactly when the request carries a non-empty file.
C8_SingleAttempt ==
  /\ Len(calls) <= 1
  /\ NotConfigured(env) => calls = <<>>
  /\ (pc = "done" /\ request.method = "POST") =>
       /\ (response.status = 200 /\ response.ok = "true")
            <=> (Len(calls) = 1 /\ upstream = "ok")
       /\ ~(Len(calls) = 1 /\ upstream = "ok") =>
            (response.status # 200 /\ response.ok = "false" /\ response.error # "")
       /\ calls # <<>> =>
            (calls[1] = "sendDocument" <=> CarriesFile(request))
            /\ calls[1] \in {"sendDocument", "sendMessage"}

\* C8 witness: a POST with a file went out as one sendDocument call that
\* Telegram rejected, and the caller got a 500
C8_Witness ==
  /\ pc = "done"
  /\ request.method = "POST"
  /\ CarriesFile(request)
  /\ calls = <<"sendDocument">>
  /\ upstream = "rejected"
  /\ response.status = 500
  /\ response.ok = "false"

\* The configured value: ALLOWED_ORIGINS, else ALLOWED_ORIGIN, else unset
Configured(e) ==
  IF TextTruthy(e.ALLOWED_ORIGINS) THEN e.ALLOWED_ORIGINS
  ELSE IF TextTruthy(e.ALLOWED_ORIGIN) THEN e.ALLOWED_ORIGIN
  ELSE UnsetText

\* The entries of the configured list: its comma-separated parts, trimmed,
\* the empty ones dropped
EntrySet(e) ==
  IF Configured(e) = UnsetText THEN {}
  ELSE LET parts == Split(Configured(e), ",")
       IN { Trim(parts[i]) : i \in DOMAIN parts } \ {<<>>}

\* The configuration is the wildcard, or unset (or blank)
WildcardOrUnset(e) ==
  Configured(e) = UnsetText \/ Trim(Configured(e)) \in {<<>>, Wildcard}

\* C9 as stated: the allowed origin is the request's origin only when that
\* origin is an entry of the list, is '*' only when the configuration is
\* the wildcard or unset, and an origin missing from a list that is not the
\* wildcard is never granted access
C9_AllowListOnly ==
  pc = "done" =>
    /\ response.allowOrigin = request.origin => request.origin \in EntrySet(env)
    /\ response.allowOrigin = Wildcard => WildcardOrUnset(env)
    /\ (~WildcardOrUnset(env) /\ request.origin \notin EntrySet(env)) =>
         response.allowOrigin \notin {request.origin, Wildcard}

\* C9 amended: the allowed origin is the request's origin only when that
\* origin is an entry of the list; it is '*' exactly when the list has no
\* entry (unset, blank, separators only) or has '*' among its entries;
\* otherwise an origin missing from the list gets an entry of the list,
\* never itself and never '*'.
C9_AllowListOrStar ==
  pc = "done" =>
    /\ response.allowOrigin = request.origin => request.origin \in EntrySet(env)
    /\ response.allowOrigin = Wildcard
         <=> (EntrySet(env) = {} \/ Wildcard \in EntrySet(env))
    /\ (EntrySet(env) # {} /\ Wildcard \notin EntrySet(env)
          /\ request.origin \notin EntrySet(env)) =>
         /\ response.allowOrigin \in EntrySet(env)
         /\ response.allowOrigin # request.origin

\* C9 witness: an origin that is not on the list asked, and the answer
\* names the listed origin
C9_Witness ==
  /\ pc = "done"
  /\ request.origin = <<OriginEvil>>
  /\ EntrySet(env) = {<<OriginA>>}
  /\ response.allowOrigin = <<OriginA>>

(***************************************************************************)
(* Properties of Spec                                                      *)
(***************************************************************************)
Baseline(lang) == lang \in {"en", "ru"}

\* The store is an object with no usable entry for the locale
NoEntry(store, lang) ==
  store.kind = "object" /\ store.ents[lang].kind \in {"undefined", "null"}

\* The element receives a resolved string
Displays(n) ==
  /\ n.i18n # NoAttr
  /\ n.tag \in {"INPUT", "TEXTAREA"} \/ n.link # NoAttr \/ ChildElementCount(n) = 0

\* The key whose string the element receives
ShownKey(n) ==
  IF n.tag \notin {"INPUT", "TEXTAREA"} /\ n.link # NoAttr THEN n.link ELSE n.i18n

\* The string the element shows after it received one
Shown(n) ==
  IF n.tag \in {"INPUT", "TEXTAREA"}
  THEN IF n.ph # NoAttr THEN n.ph ELSE n.value
  ELSE IF n.kids = <<>> THEN "" ELSE n.kids[1].text

\* The element keeps its child list through a substitution
KeepsKids(n) == ~Displays(n) \/ n.tag \in {"INPUT", "TEXTAREA"}

RECURSIVE HasMarkedDescendant(_)
HasMarkedDescendant(n) ==
  \E i \in DOMAIN n.kids :
    IsElement(n.kids[i]) /\
      (n.kids[i].i18n # NoAttr \/ HasMarkedDescendant(n.kids[i]))

\* <<element before, the same element after>> for the elements of the body
\* down to the children of top-level elements that keep their child list
ElementPairs(pre, post) ==
  { <<pre[i], post[i]>> : i \in {j \in DOMAIN pre : IsElement(pre[j])} } \cup
  UNION { { <<pre[i].kids[j], post[i].kids[j]>> :
              j \in {k \in DOMAIN pre[i].kids : IsElement(pre[i].kids[k])} } :
          i \in {j \in DOMAIN pre : IsElement(pre[j]) /\ KeepsKids(pre[j])} }

\* store[l][k] is there and is neither undefined nor null
PresentAt(store, l, k) ==
  store.ents[l].kind = "object" /\ store.ents[l].props[k] \notin {Undefined, Null}

\* store[l][k] is there and is a non-empty string
NonEmptyAt(store, l, k) == PresentAt(store, l, k) /\ store.ents[l].props[k] # ""

\* store[lang]?.[k] ?? store['en']?.[k] ?? k
LookupNullish(store, lang, k) ==
  IF PresentAt(store, lang, k) THEN store.ents[lang].props[k]
  ELSE IF PresentAt(store, "en", k) THEN store.ents["en"].props[k]
  ELSE k

\* The same lookup with a level skipped also when it holds the empty string
LookupNonEmpty(store, lang, k) ==
  IF NonEmptyAt(store, lang, k) THEN store.ents[lang].props[k]
  ELSE IF NonEmptyAt(store, "en", k) THEN store.ents["en"].props[k]
  ELSE k

\* C1: on every call with a store object, a locale outside {en, ru} with no
\* store entry gets the Coming Soon panel as body and keeps the root lang
\* attribute; under en or ru the gate never triggers and substitution runs
\* (the root lang attribute becomes the locale, the body is not the panel
\* unless it already was).
C1_GatePrecedence ==
  [][ translations'.kind = "object" =>
        /\ (NoEntry(translations', currentLang) /\ ~Baseline(currentLang)) =>
             /\ outcome' = "gate"
             /\ document'.body = ComingSoon
             /\ document'.lang = document.lang
        /\ Baseline(currentLang) =>
             /\ outcome' = "translated"
             /\ document'.lang = currentLang
             /\ (document.body # ComingSoon => document'.body # ComingSoon)
    ]_vars

\* C1 witness: the gate fired for 'fr' on a store object without an 'fr'
\* entry but with an English one, and the root lang attribute is untouched
C1_Witness ==
  /\ currentLang = "fr"
  /\ outcome = "gate"
  /\ NoEntry(translations, "fr")
  /\ translations.ents["en"].kind = "object"
  /\ document.body = ComingSoon
  /\ document.lang = ""

\* C2 as stated: every element that receives a string shows
\* store[lang]?.[K] ?? store['en']?.[K] ?? K
C2_NullishLookup ==
  [][ outcome' = "translated" =>
        \A p \in ElementPairs(document.body, document'.body) :
          Displays(p[1]) =>
            Shown(p[2]) = LookupNullish(translations', currentLang, ShownKey(p[1]))
    ]_vars

\* C2 amended: every element that receives a string shows the first
\* non-empty string among store[lang][K], store['en'][K] and K (a level is
\* skipped when it is undefined, null or the empty string).
C2_FalsyLookup ==
  [][ outcome' = "translated" =>
        \A p \in ElementPairs(document.body, document'.body) :
          Displays(p[1]) =>
            Shown(p[2]) = LookupNonEmpty(translations', currentLang, ShownKey(p[1]))
    ]_vars

\* C2 witness: under 'ru' an element keyed K shows the English string because
\* the 'ru' entry holds the empty string for K
C2_Witness ==
  /\ currentLang = "ru"
  /\ outcome = "translated"
  /\ PresentAt(translations, "ru", "K")
  /\ translations.ents["ru"].props["K"] = ""
  /\ document.body[1].i18n = "K"
  /\ document.body[1].tag = "DIV"
  /\ document.body[1].kids = <<Text("Hello")>>

\* C4: initTranslations and translatePage never throw
C4_NeverThrows == outcome # "threw"

\* C5 as stated: a marked element with element children keeps its HTML
\* content, and an unmarked element is left as it was
C5_ChildrenKept ==
  [][ outcome' = "translated" =>
        \A i \in DOMAIN document.body :
          LET n == document.body[i] IN
          /\ (n.i18n # NoAttr /\ ChildElementCount(n) > 0) =>
               document'.body[i].kids = n.kids
          /\ (IsElement(n) /\ n.i18n = NoAttr) => document'.body[i] = n
    ]_vars

\* C5 amended: a marked element with element children that carries no
\* link-key marker and has no marked descendant keeps its HTML content, and
\* an unmarked element with no marked descendant is left as it was (both
\* for elements not inside an element whose text content is replaced).
C5_ChildrenKeptUnlessLinkOrMarkedInside ==
  [][ outcome' = "translated" =>
        \A p \in ElementPairs(document.body, document'.body) :
          /\ ( /\ p[1].i18n # NoAttr
               /\ ChildElementCount(p[1]) > 0
               /\ p[1].link = NoAttr
               /\ ~HasMarkedDescendant(p[1]) ) => p[2].kids = p[1].kids
          /\ (p[1].i18n = NoAttr /\ ~HasMarkedDescendant(p[1])) => p[2] = p[1]
    ]_vars

\* C5 witness: a marked element without link marker kept its unmarked
\* element child through a substitution that did resolve strings
C5_Witness ==
  /\ outcome = "translated"
  /\ document.lang = currentLang
  /\ document.body[1].i18n = "K"
  /\ document.body[1].link = NoAttr
  /\ ChildElementCount(document.body[1]) > 0
  /\ ~HasMarkedDescendant(document.body[1])
  /\ NonEmptyAt(translations, currentLang, "K")

\* C6: a call that leaves the store as it was, made after a call already
\* ran against that store, leaves the document as it was.
C6_Idempotent ==
  [][ (runs >= 1 /\ translations' = translations) => document' = document ]_vars

\* C6 witness: translatePage ran a second time against the same store on a
\* page whose marked element shows a translated string
C6_Witness ==
  /\ runs >= 2
  /\ outcome = "translated"
  /\ currentLang = "ru"
  /\ document.body[1].i18n = "K"
  /\ document.body[1].kids = <<Text("Privet")>>

\* C10: once the body is the Coming Soon panel it stays the panel.
C10_GateAbsorbing ==
  [][ document.body = ComingSoon => document'.body = ComingSoon ]_vars

\* C10 witness: the body is the panel although the last call ran the
\* substitution path against a store that has the locale
C10_Witness ==
  /\ document.body = ComingSoon
  /\ outcome = "translated"
  /\ ~Baseline(currentLang)
  /\ EntryTruthy(translations.ents[currentLang])
  /\ document.lang = currentLang

====
